---- MODULE Spec2Model ----
(***************************************************************************)
(* State-machine model of the BIM viewer: the App component that owns the  *)
(* component list, the IFCViewer component that loads, clears and picks,   *)
(* and the loadIFCFile decoder that turns a per-vertex expressID array     *)
(* into component descriptors.                                             *)
(*                                                                         *)
(* One action is one JavaScript task: an event handler run to completion,  *)
(* or the continuation of an async function from one await to the next.    *)
(* React state setters called in one task are applied together.            *)
(***************************************************************************)
EXTENDS Integers, Sequences, FiniteSets, TLC

VARIABLES
    components,         \* App: useState([]) - the component list
    loading,            \* IFCViewer: useState(false)
    error,              \* IFCViewer: useState(null)
    ifcManager,         \* IFCViewer: useState(null) - decoder handle
    modelID,            \* IFCViewer: useState(null) - model handle
    selectedId,         \* IFCViewer: useState(null)
    showComponentsList, \* IFCViewer: useState(false)
    loads,              \* pending load tasks (calls of handleFileUpload /
                        \* loadFileFromPublic that have not settled yet)
    subsets,            \* geometry subsets allocated and not disposed
    nextLoader,         \* number of load tasks started so far
    lastOp,             \* the task that ran last, with its input and outcome
    explodeAmount,      \* App: useState(0)
    originalCentroids,  \* IFCViewer: useState([])
    boundingBox,        \* mesh.geometry.boundingBox of every mesh in the scene
    position,           \* mesh.position of every mesh in the scene
    explodeRuns,        \* explode effect runs with a positive amount since
                        \* the positions were last reset
    isSplitModeLocal,   \* IFCViewer: useState(isSplitMode)
    splitPosition,      \* IFCViewer: useState(50)
    clipAxis,           \* IFCViewer: useState('x')
    material,           \* mesh.material of every mesh in the scene
    originalMaterial,   \* mesh.userData.originalMaterial, or null
    clippingPlanes,     \* material.clippingPlanes of every material object
    isMeasuring,        \* IFCViewer: useState(false)
    points,             \* MeasurementSystem: useState([])
    lines,              \* MeasurementSystem: useState([])
    results,            \* calls of onMeasurementComplete made so far
    properties,         \* IFCViewer: useState(null), the record shown
    lookups,            \* getItemProperties calls of loadProperties that
                        \* have not settled
    searchTerm,         \* ComponentPanel: useState('')
    selectedType,       \* ComponentPanel: useState('all')
    showOnlyVisible     \* ComponentPanel: useState(false)

\* the component list, the loads and the viewer's panels
appVars == <<components, loading, error, ifcManager, modelID, selectedId,
             showComponentsList, loads, subsets, nextLoader, lastOp>>

\* the explode slider and what its effect writes
explodeVars == <<explodeAmount, originalCentroids, boundingBox, position,
                 explodeRuns>>

\* the clip controls and the materials of the scene
clipVars == <<isSplitModeLocal, splitPosition, clipAxis, material,
              originalMaterial, clippingPlanes>>

\* the measurement tool
measureVars == <<isMeasuring, points, lines, results>>

\* the properties shown for the selected component
propertyVars == <<properties, lookups>>

\* the filters of the component panel
filterVars == <<searchTerm, selectedType, showOnlyVisible>>

panelVars == <<propertyVars, filterVars>>

sceneVars == <<explodeVars, clipVars, measureVars, panelVars>>

vars == <<appVars, sceneVars>>

-----------------------------------------------------------------------------
(* Bounds of the model *)

\* load tasks started in one behaviour
MaxLoads == 2
\* length of a per-vertex expressID array
MaxLen == 4

\* values a per-vertex expressID can take (negative, zero, positive)
IdValues == {-1, 0, 1, 2}

\* every expressID array up to MaxLen
IdArrays == UNION {[1..n -> IdValues] : n \in 0..MaxLen}

\* model handles the decoder may hand out
ModelIDs == {0, 1}

-----------------------------------------------------------------------------
(* Optional values: null is the empty sequence, a value v is <<v>> *)

Null == <<>>

Some(v) == <<v>>

-----------------------------------------------------------------------------
(* THREE.Vector3 over exact numbers.  A vector whose components are NaN    *)
(* carries nan = TRUE; every operation on it gives NaN again.             *)

Vec(x, y, z) == [x |-> x, y |-> y, z |-> z, nan |-> FALSE]

NaNVec == [x |-> 0, y |-> 0, z |-> 0, nan |-> TRUE]

\* new THREE.Vector3()
Origin == Vec(0, 0, 0)

add(a, b) ==
    IF a.nan \/ b.nan THEN NaNVec ELSE Vec(a.x + b.x, a.y + b.y, a.z + b.z)

subVectors(a, b) ==
    IF a.nan \/ b.nan THEN NaNVec ELSE Vec(a.x - b.x, a.y - b.y, a.z - b.z)

multiplyScalar(v, s) ==
    IF v.nan THEN NaNVec ELSE Vec(v.x * s, v.y * s, v.z * s)

\* 0 / 0 is NaN; the model divides a vector by 0 only when it is zero
divideScalar(v, s) ==
    IF v.nan \/ s = 0 THEN NaNVec
    ELSE Vec(v.x \div s, v.y \div s, v.z \div s)

Abs(n) == IF n < 0 THEN -n ELSE n

\* Math.sqrt(x*x + y*y + z*z), on the vectors whose length is a whole number
length(v) ==
    CHOOSE r \in 0..(Abs(v.x) + Abs(v.y) + Abs(v.z)) :
        r * r = v.x * v.x + v.y * v.y + v.z * v.z

\* divideScalar(length() || 1): the zero vector stays the zero vector
normalize_unguarded(v) == divideScalar(v, length(v))

normalize(v) ==
    LET len == length(v)
    IN  divideScalar(v, IF len = 0 THEN 1 ELSE len)

distanceTo(a, b) == length(subVectors(a, b))

Min(S) == CHOOSE m \in S : \A n \in S : m <= n

Max(S) == CHOOSE m \in S : \A n \in S : m >= n

\* THREE.Box3 (never empty in this model): union, getCenter, getSize
Box(lo, hi) == [min |-> lo, max |-> hi]

Union(boxes) ==
    Box(Vec(Min({b.min.x : b \in boxes}), Min({b.min.y : b \in boxes}),
            Min({b.min.z : b \in boxes})),
        Vec(Max({b.max.x : b \in boxes}), Max({b.max.y : b \in boxes}),
            Max({b.max.z : b \in boxes})))

getCenter(box) ==
    Vec((box.min.x + box.max.x) \div 2, (box.min.y + box.max.y) \div 2,
        (box.min.z + box.max.z) \div 2)

getSize(box) == subVectors(box.max, box.min)

-----------------------------------------------------------------------------
(* File names, as sequences of characters *)

Lower(ch) ==
    CASE ch = "I" -> "i"
      [] ch = "F" -> "f"
      [] ch = "C" -> "c"
      [] ch = "M" -> "m"
      [] ch = "W" -> "w"
      [] ch = "A" -> "a"
      [] ch = "L" -> "l"
      [] ch = "S" -> "s"
      [] ch = "B" -> "b"
      [] OTHER -> ch

toLowerCase(s) == [i \in 1..Len(s) |-> Lower(s[i])]

endsWith(s, suffix) ==
    /\ Len(s) >= Len(suffix)
    /\ SubSeq(s, Len(s) - Len(suffix) + 1, Len(s)) = suffix

IfcSuffix == <<".", "i", "f", "c">>

FileNames ==
    { <<"m", ".", "i", "f", "c">>,
      <<"M", ".", "I", "F", "C">>,
      <<"m", ".", "i", "f", "c", ".", "t">>,
      <<"i", "f", "c">> }

PublicFileName ==
    <<"A", "C", "2", "0", ".", "i", "f", "c">>

\* handleFileUpload: the size ceiling
maxSize == 100 * 1024 * 1024

FileSizes == {maxSize, maxSize + 1}

\* handleFileUpload: the extension test
HasIfcExtension(name) == endsWith(toLowerCase(name), IfcSuffix)

\* handleFileUpload: the size test (true when the file is accepted)
WithinSizeLimit(size) == ~(size > maxSize)

-----------------------------------------------------------------------------
(* Errors shown to the user: {title, message} *)

InvalidFileError ==
    [title |-> "Invalid File",
     message |-> "Please select a valid IFC file (.ifc extension required)."]

FileTooLargeError ==
    [title |-> "File Too Large", message |-> "File size exceeds 100MB limit."]

NoComponentsMessage ==
    "No valid components could be extracted from the IFC file"

\* what can go wrong before the per-id loop of loadIFCFile
DecodeFailures == {"wasm", "network", "read", "noAttr"}

\* loadIFCFile: the catch block's choice of message
CatchMessage(cause) ==
    CASE cause = "wasm" ->
           "WebAssembly initialization failed. Please refresh the page and try again."
      [] cause = "network" ->
           "Network error while loading IFC file. Please check your connection."
      [] cause = "noAttr" ->
           "Failed to load IFC file: No expressID attribute found in geometry"
      [] OTHER -> "Failed to load IFC file: File reading failed"

FetchFailedMessage == "Failed to fetch"

LoadingError(msg) == [title |-> "Loading Error", message |-> msg]

-----------------------------------------------------------------------------
(* loadIFCFile: the decoder *)

\* Texts: a literal is a one-element sequence, a template literal the
\* sequence of its parts (`Type_${typeCode}` is <<"Type_", typeCode>>)
Text(str) == <<str>>

\* IFC_TYPES_MAP
IFC_TYPES_MAP ==
    [code \in 0..6 |->
        CASE code = 0 -> Text("Unknown")
          [] code = 1 -> Text("IFCWALL")
          [] code = 2 -> Text("IFCSLAB")
          [] code = 3 -> Text("IFCCOLUMN")
          [] code = 4 -> Text("IFCBEAM")
          [] code = 5 -> Text("IFCDOOR")
          [] code = 6 -> Text("IFCWINDOW")]

\* type codes a property record can hold: listed ones, and unlisted ones
TypeCodes == 0..8

\* what getItemProperties returns for an id that has a type field: Name is
\* absent or holds a value (possibly the empty string), type is null or a code
PropsValues ==
    [Name : {Null, Some(""), Some("Wall")},
     type : {Null} \cup {Some(code) : code \in TypeCodes}]

\* a named wall
WallProps == [Name |-> Some("Wall"), type |-> Some(1)]

\* props.Name?.value || `ID ${id}`
ComponentName(props, id) ==
    IF props.Name # Null /\ props.Name # Some("") THEN Text(props.Name[1])
    ELSE <<"ID ", id>>

\* props.type || 0
TypeCode(props) == IF props.type = Null THEN 0 ELSE props.type[1]

\* IFC_TYPES_MAP[typeCode] || `Type_${typeCode}` || 'Unknown'
TypeName_unknown(typeCode) ==
    IF typeCode \in DOMAIN IFC_TYPES_MAP THEN IFC_TYPES_MAP[typeCode]
    ELSE Text("Unknown")

TypeName(typeCode) ==
    IF typeCode \in DOMAIN IFC_TYPES_MAP THEN IFC_TYPES_MAP[typeCode]
    ELSE <<"Type_", typeCode>>

\* a component descriptor as pushed by the per-id loop; the geometry subset
\* is named by the loader that allocated it and the expressID it holds
Component(loader, id, props) ==
    [id |-> id, name |-> ComponentName(props, id),
     type |-> TypeName(TypeCode(props)), mesh |-> <<loader, id>>,
     visible |-> TRUE, highlighted |-> FALSE, initialPosition |-> Origin]

\* the filter of the scan over the expressID array
KeepId_nonNegative(id) == id >= 0

KeepId(id) == id > 0

\* Set.add: insertion order, no duplicates
SetAdd(seq, v) ==
    IF \E i \in 1..Len(seq) : seq[i] = v THEN seq ELSE Append(seq, v)

RECURSIVE ScanIds(_, _, _)
ScanIds(idsArray, i, uniqueIDs) ==
    IF i > Len(idsArray) THEN uniqueIDs
    ELSE ScanIds(idsArray, i + 1,
                 IF KeepId(idsArray[i]) THEN SetAdd(uniqueIDs, idsArray[i])
                 ELSE uniqueIDs)

\* the distinct positive ids of the array, in first-seen order
UniqueIDs(idsArray) == ScanIds(idsArray, 1, <<>>)

\* what createSubset / getItemProperties can do for one id
LookupOutcomes == {"subsetThrows", "propsThrows", "none", "noType", "ok"}

\* createSubset returned a subset (it is allocated whatever the lookup does)
SubsetAllocated(outcome) == outcome # "subsetThrows"

\* the test `!props || typeof props.type === 'undefined'`
InvalidProps(outcome) == outcome \in {"none", "noType"}

\* the ids still to visit after an id was skipped: `continue`
AfterSkip_break(rest) == <<>>

AfterSkip(rest) == rest

\* the failure counter after an id was skipped or threw
CountFailure(failedCount) == failedCount + 1

\* a pending load right after the model callback: the scan has run, the
\* per-id loop has not started
StartLoop(load, model, idsArray) ==
    [load EXCEPT !.pc = "processing",
                 !.modelID = model,
                 !.idsArray = idsArray,
                 !.uniqueIDs = UniqueIDs(idsArray)]

\* one iteration of `for (const id of uniqueIDs)`
LoopBody(load, loader, outcome, props) ==
    LET id   == Head(load.uniqueIDs)
        rest == Tail(load.uniqueIDs)
        seen == [load EXCEPT !.log = Append(@, outcome)]
    IN  IF outcome \in {"subsetThrows", "propsThrows"}
        THEN \* catch (itemError)
             [seen EXCEPT !.uniqueIDs = rest,
                          !.failedCount = CountFailure(@)]
        ELSE IF InvalidProps(outcome)
        THEN [seen EXCEPT !.uniqueIDs = AfterSkip(rest),
                          !.failedCount = CountFailure(@)]
        ELSE [seen EXCEPT !.uniqueIDs = rest,
                          !.components = Append(@, Component(loader, id, props)),
                          !.processedCount = @ + 1]

\* the loop test of `for (const id of uniqueIDs)`: an id is left to visit
MoreIds_untilFirstPush(load) == load.uniqueIDs # <<>> /\ load.components = <<>>

MoreIds(load) == load.uniqueIDs # <<>>

\* the test that chooses resolve over reject
HasComponents_always(comps) == TRUE

HasComponents(comps) == Len(comps) > 0

-----------------------------------------------------------------------------
(* handleFileUpload / loadFileFromPublic: what the await of loadIFCFile     *)
(* does to the viewer                                                      *)

\* try: onComponentUpdate(result.components)
ListOnSuccess(current, result) == result

\* catch: the list is not touched
ListOnFailure_cleared(current) == <<>>

ListOnFailure(current) == current

-----------------------------------------------------------------------------
(* Highlight and visibility updates of the component list *)

\* handleSceneClick: highlighted: c.id === expressID
handleSceneClick_additive(comps, expressID) ==
    [i \in DOMAIN comps |->
        [comps[i] EXCEPT !.highlighted = (@ \/ comps[i].id = expressID)]]

handleSceneClick(comps, expressID) ==
    [i \in DOMAIN comps |->
        [comps[i] EXCEPT !.highlighted = (comps[i].id = expressID)]]

\* the viewer's component list, row onClick
ListRowClick_retyped(comps, id) ==
    [i \in DOMAIN comps |->
        [comps[i] EXCEPT !.highlighted = (comps[i].id = id),
                         !.type = Text("Unknown")]]

ListRowClick(comps, id) ==
    [i \in DOMAIN comps |->
        [comps[i] EXCEPT !.highlighted = (comps[i].id = id)]]

\* the viewer's component list, checkbox onChange
ListCheckboxChange(comps, id, checked) ==
    [i \in DOMAIN comps |->
        IF comps[i].id = id THEN [comps[i] EXCEPT !.visible = checked]
        ELSE comps[i]]

\* App.handleComponentToggle
handleComponentToggle_all(prev, componentId) ==
    [i \in DOMAIN prev |-> [prev[i] EXCEPT !.visible = ~@]]

handleComponentToggle(prev, componentId) ==
    [i \in DOMAIN prev |->
        IF prev[i].id = componentId THEN [prev[i] EXCEPT !.visible = ~@]
        ELSE prev[i]]

\* App.handleComponentHighlight
handleComponentHighlight_keepOthers(prev, componentId) ==
    [i \in DOMAIN prev |->
        IF prev[i].id = componentId THEN [prev[i] EXCEPT !.highlighted = ~@]
        ELSE prev[i]]

handleComponentHighlight(prev, componentId) ==
    [i \in DOMAIN prev |->
        IF prev[i].id = componentId THEN [prev[i] EXCEPT !.highlighted = ~@]
        ELSE [prev[i] EXCEPT !.highlighted = FALSE]]

\* ifcManager.dispose(): every subset of that loader is released
Dispose_none(live, loader) == live

Dispose(live, loader) == {s \in live : s[1] # loader}

\* `if (mesh.userData && mesh.userData.expressID)`
Truthy_defined(expressID) == expressID # Null

Truthy(expressID) == expressID # Null /\ expressID # Some(0)

\* what a canvas click can hit: nothing, or an object whose userData has no
\* expressID, or one that carries any expressID value
HitIds == {0, 1, 2}

Hits == {Null} \cup {Some(e) : e \in {Null} \cup {Some(v) : v \in HitIds}}

Ids(comps) == {comps[i].id : i \in DOMAIN comps}

-----------------------------------------------------------------------------
(* Initial state: App and IFCViewer as mounted *)

\* the properties panel and the component panel before anything was
\* selected or filtered
PanelsAsMounted ==
    /\ properties = Null
    /\ lookups = {}
    /\ searchTerm = <<>>
    /\ selectedType = Text("all")
    /\ showOnlyVisible = FALSE

\* the tools of the viewer before any model is in the scene
SceneAsMounted ==
    /\ explodeAmount = 0
    /\ originalCentroids = <<>>
    /\ boundingBox = <<>>
    /\ position = <<>>
    /\ explodeRuns = 0
    /\ isSplitModeLocal = FALSE
    /\ splitPosition = 50
    /\ clipAxis = "x"
    /\ material = <<>>
    /\ originalMaterial = <<>>
    /\ clippingPlanes = <<>>
    /\ isMeasuring = FALSE
    /\ points = <<>>
    /\ lines = <<>>
    /\ results = <<>>
    /\ PanelsAsMounted

Init ==
    /\ components = <<>>
    /\ loading = FALSE
    /\ error = Null
    /\ ifcManager = Null
    /\ modelID = Null
    /\ selectedId = Null
    /\ showComponentsList = FALSE
    /\ loads = <<>>
    /\ subsets = {}
    /\ nextLoader = 0
    /\ lastOp = [op |-> "mount"]
    /\ SceneAsMounted

\* a load task that has just been started
NewLoad(pc) ==
    [pc |-> pc, modelID |-> Null, idsArray |-> <<>>,
     uniqueIDs |-> <<>>, components |-> <<>>, processedCount |-> 0,
     failedCount |-> 0, log |-> <<>>]

Pending == DOMAIN loads

Without_keep(l) == loads

Without(l) == [k \in Pending \ {l} |-> loads[k]]

\* the files the upload input can deliver: none, or a name and a size
Files == {Null} \cup {Some([name |-> n, size |-> z]) : n \in FileNames, z \in FileSizes}

-----------------------------------------------------------------------------
(* Loading *)

\* handleFileUpload, up to its await; the input is disabled while loading
HandleFileUpload(file) ==
    /\ ~loading
    /\ lastOp' = [op |-> "upload"]
    /\ UNCHANGED <<components, ifcManager, modelID, selectedId,
                   showComponentsList, subsets>>
    /\ IF file = Null
       THEN UNCHANGED <<loading, error, loads, nextLoader>>
       ELSE IF ~HasIfcExtension(file[1].name)
       THEN /\ error' = Some(InvalidFileError)
            /\ UNCHANGED <<loading, loads, nextLoader>>
       ELSE IF ~WithinSizeLimit(file[1].size)
       THEN /\ error' = Some(FileTooLargeError)
            /\ UNCHANGED <<loading, loads, nextLoader>>
       ELSE /\ nextLoader < MaxLoads
            /\ loading' = TRUE
            /\ error' = Null
            /\ nextLoader' = nextLoader + 1
            /\ loads' = (nextLoader + 1 :> NewLoad("loading")) @@ loads

\* loadFileFromPublic, up to its await of fetch; the button is disabled
\* while loading
LoadFileFromPublic ==
    /\ ~loading
    /\ nextLoader < MaxLoads
    /\ loading' = TRUE
    /\ error' = Null
    /\ nextLoader' = nextLoader + 1
    /\ loads' = (nextLoader + 1 :> NewLoad("fetching")) @@ loads
    /\ lastOp' = [op |-> "public"]
    /\ UNCHANGED <<components, ifcManager, modelID, selectedId,
                   showComponentsList, subsets>>

\* loadFileFromPublic: fetch settles; a response that is not ok throws
FetchSettles(l, ok, size) ==
    /\ l \in Pending
    /\ loads[l].pc = "fetching"
    /\ lastOp' = [op |-> "fetched", loader |-> l]
    /\ UNCHANGED <<ifcManager, modelID, selectedId, showComponentsList,
                   subsets, nextLoader>>
    /\ IF ok
       THEN /\ loads' = [loads EXCEPT ![l].pc = "loading"]
            /\ UNCHANGED <<components, loading, error>>
       ELSE /\ loads' = Without(l)
            /\ components' = ListOnFailure(components)
            /\ error' = Some(LoadingError(FetchFailedMessage))
            /\ loading' = FALSE

\* loadIFCFile settles and the awaiting handler runs its try / catch /
\* finally; `load` is the task's decoder state when the loop is over
Settle(l, load) ==
    /\ loads' = Without(l)
    /\ loading' = FALSE
    /\ UNCHANGED <<selectedId, showComponentsList, nextLoader>>
    /\ IF HasComponents(load.components)
       THEN /\ components' = ListOnSuccess(components, load.components)
            /\ ifcManager' = Some(l)
            /\ modelID' = load.modelID
            /\ UNCHANGED error
       ELSE /\ components' = ListOnFailure(components)
            /\ error' = Some(LoadingError(NoComponentsMessage))
            /\ UNCHANGED <<ifcManager, modelID>>
    /\ lastOp' = [op |-> IF HasComponents(load.components)
                         THEN "resolved" ELSE "rejected",
                  loader |-> l,
                  idsArray |-> load.idsArray,
                  log |-> load.log,
                  components |-> load.components,
                  processedCount |-> load.processedCount,
                  failedCount |-> load.failedCount]

\* loadIFCFile from its start to the model callback and the scan of the
\* expressID attribute: reading or decoding fails, or the attribute is
\* missing, or the per-id loop starts (and ends at once on no ids)
ModelFails(l, cause) ==
    /\ l \in Pending
    /\ loads[l].pc = "loading"
    /\ loads' = Without(l)
    /\ components' = ListOnFailure(components)
    /\ error' = Some(LoadingError(CatchMessage(cause)))
    /\ loading' = FALSE
    /\ lastOp' = [op |-> "failed", loader |-> l]
    /\ UNCHANGED <<ifcManager, modelID, selectedId, showComponentsList,
                   subsets, nextLoader>>

ModelLoaded(l, model, idsArray) ==
    /\ l \in Pending
    /\ loads[l].pc = "loading"
    /\ LET load == StartLoop(loads[l], Some(model), idsArray)
       IN  IF ~MoreIds(load)
           THEN Settle(l, load)
           ELSE /\ loads' = [loads EXCEPT ![l] = load]
                /\ lastOp' = [op |-> "scanned", loader |-> l]
                /\ UNCHANGED <<components, loading, error, ifcManager,
                               modelID, selectedId, showComponentsList,
                               nextLoader>>
    /\ UNCHANGED subsets

\* one iteration of the per-id loop: createSubset, the awaited
\* getItemProperties and what follows; after the last id the promise
\* settles in the same task
ProcessId(l, outcome, props) ==
    /\ l \in Pending
    /\ loads[l].pc = "processing"
    /\ loads[l].uniqueIDs # <<>>
    /\ LET id   == Head(loads[l].uniqueIDs)
           load == LoopBody(loads[l], l, outcome, props)
       IN  /\ subsets' = IF SubsetAllocated(outcome)
                         THEN subsets \cup {<<l, id>>} ELSE subsets
           /\ IF ~MoreIds(load)
              THEN Settle(l, load)
              ELSE /\ loads' = [loads EXCEPT ![l] = load]
                   /\ lastOp' = [op |-> "processed", loader |-> l]
                   /\ UNCHANGED <<components, loading, error, ifcManager,
                                  modelID, selectedId, showComponentsList,
                                  nextLoader>>

\* handleClearIFCFile (the Clear button is outside the loading overlay)
HandleClearIFCFile ==
    /\ components' = <<>>
    /\ subsets' = IF ifcManager # Null THEN Dispose(subsets, ifcManager[1])
                  ELSE subsets
    /\ ifcManager' = Null
    /\ modelID' = Null
    /\ selectedId' = Null
    /\ showComponentsList' = FALSE
    /\ error' = Null
    /\ loading' = FALSE
    /\ lastOp' = [op |-> "clear", listed |-> Len(components)]
    /\ UNCHANGED <<loads, nextLoader>>

-----------------------------------------------------------------------------
(* Picking, highlighting, visibility *)

\* SceneSetup's click listener and handleSceneClick; the loading overlay
\* covers the canvas while loading
SceneClick(hit) ==
    /\ ~loading
    /\ lastOp' = [op |-> "sceneClick",
                  id |-> IF hit # Null /\ Truthy(hit[1]) THEN hit[1] ELSE Null]
    /\ UNCHANGED <<loading, error, ifcManager, modelID, showComponentsList,
                   loads, subsets, nextLoader>>
    /\ IF hit # Null /\ Truthy(hit[1])
       THEN /\ selectedId' = hit[1]
            /\ components' = handleSceneClick(components, hit[1][1])
       ELSE UNCHANGED <<selectedId, components>>

\* handleToggleComponentsList
ToggleComponentsList ==
    /\ showComponentsList' = ~showComponentsList
    /\ lastOp' = [op |-> "toggleList"]
    /\ UNCHANGED <<components, loading, error, ifcManager, modelID,
                   selectedId, loads, subsets, nextLoader>>

\* a click on a row of the viewer's component list
ListClick(id) ==
    /\ showComponentsList
    /\ id \in Ids(components)
    /\ selectedId' = Some(id)
    /\ components' = ListRowClick(components, id)
    /\ lastOp' = [op |-> "listClick", id |-> Some(id)]
    /\ UNCHANGED <<loading, error, ifcManager, modelID, showComponentsList,
                   loads, subsets, nextLoader>>

\* a click on a row's checkbox: onClick of the row and onChange of the
\* checkbox both run in that click, each on the rendered list; React
\* dispatches the click listeners before the change listeners, so the
\* checkbox's update is made last and is the one that stays
ListCheckbox(id) ==
    /\ showComponentsList
    /\ \E i \in DOMAIN components :
          /\ components[i].id = id
          /\ components' =
                ListCheckboxChange(components, id, ~components[i].visible)
    /\ selectedId' = Some(id)
    /\ lastOp' = [op |-> "listCheckbox", id |-> Some(id)]
    /\ UNCHANGED <<loading, error, ifcManager, modelID, showComponentsList,
                   loads, subsets, nextLoader>>

\* ComponentPanel checkbox -> App.handleComponentToggle
PanelToggle(id) ==
    /\ id \in Ids(components)
    /\ components' = handleComponentToggle(components, id)
    /\ lastOp' = [op |-> "panelToggle", id |-> Some(id)]
    /\ UNCHANGED <<loading, error, ifcManager, modelID, selectedId,
                   showComponentsList, loads, subsets, nextLoader>>

\* ComponentPanel Highlight button -> App.handleComponentHighlight
PanelHighlight(id) ==
    /\ id \in Ids(components)
    /\ components' = handleComponentHighlight(components, id)
    /\ lastOp' = [op |-> "panelHighlight", id |-> Some(id)]
    /\ UNCHANGED <<loading, error, ifcManager, modelID, selectedId,
                   showComponentsList, loads, subsets, nextLoader>>

-----------------------------------------------------------------------------

\* Application level: every handler, with decoder inputs kept small: an
\* array without a positive id and one with two ids and a repetition; a
\* lookup that lacks its type field or succeeds; the model handle a fresh
\* decoder gives its first model
AppIdArrays == {<<0>>, <<1, 1, 2>>}

AppModelIDs == {0}

AppOutcomes == {"noType", "ok"}

AppFailures == {"read", "noAttr"}

\* the behaviours in which the explode slider, the clip controls and the
\* measurement tool are left alone: their state stays as mounted
Next ==
    \/ (\E file \in Files : HandleFileUpload(file)) /\ UNCHANGED sceneVars
    \/ LoadFileFromPublic /\ UNCHANGED sceneVars
    \/ (\E l \in Pending, ok \in BOOLEAN, size \in FileSizes :
            FetchSettles(l, ok, size)) /\ UNCHANGED sceneVars
    \/ (\E l \in Pending, cause \in AppFailures : ModelFails(l, cause))
          /\ UNCHANGED sceneVars
    \/ (\E l \in Pending, model \in AppModelIDs, idsArray \in AppIdArrays :
            ModelLoaded(l, model, idsArray)) /\ UNCHANGED sceneVars
    \/ (\E l \in Pending, outcome \in AppOutcomes :
            ProcessId(l, outcome, WallProps))
          /\ UNCHANGED sceneVars
    \/ HandleClearIFCFile /\ UNCHANGED sceneVars
    \/ (\E hit \in Hits : SceneClick(hit)) /\ UNCHANGED sceneVars
    \/ ToggleComponentsList /\ UNCHANGED sceneVars
    \/ (\E id \in IdValues : ListClick(id)) /\ UNCHANGED sceneVars
    \/ (\E id \in IdValues : ListCheckbox(id)) /\ UNCHANGED sceneVars
    \/ (\E id \in IdValues : PanelToggle(id)) /\ UNCHANGED sceneVars
    \/ (\E id \in IdValues : PanelHighlight(id)) /\ UNCHANGED sceneVars

Spec == Init /\ [][Next]_vars

\* the steps of the load task l: its awaits resume and its loop iterates
LoadStep(l) ==
    /\ \/ \E ok \in BOOLEAN, size \in FileSizes : FetchSettles(l, ok, size)
       \/ \E cause \in AppFailures : ModelFails(l, cause)
       \/ \E model \in AppModelIDs, idsArray \in AppIdArrays :
              ModelLoaded(l, model, idsArray)
       \/ \E outcome \in AppOutcomes : ProcessId(l, outcome, WallProps)
    /\ UNCHANGED sceneVars

\* every pending await of a load task settles and its continuation runs
SpecLoads == Spec /\ \A l \in 1..MaxLoads : WF_vars(LoadStep(l))

-----------------------------------------------------------------------------
(* Decoder level: one load task from its start to its outcome, over every  *)
(* expressID array up to MaxLen and every lookup outcome                   *)

InitDecode ==
    /\ components = <<>>
    /\ loading = TRUE
    /\ error = Null
    /\ ifcManager = Null
    /\ modelID = Null
    /\ selectedId = Null
    /\ showComponentsList = FALSE
    /\ loads = (1 :> NewLoad("loading"))
    /\ subsets = {}
    /\ nextLoader = 1
    /\ lastOp = [op |-> "upload"]
    /\ SceneAsMounted

NextDecode ==
    \/ (\E l \in Pending, cause \in DecodeFailures : ModelFails(l, cause))
          /\ UNCHANGED sceneVars
    \/ (\E l \in Pending, model \in ModelIDs, idsArray \in IdArrays :
            ModelLoaded(l, model, idsArray)) /\ UNCHANGED sceneVars
    \/ (\E l \in Pending, outcome \in LookupOutcomes :
            ProcessId(l, outcome, WallProps))
          /\ UNCHANGED sceneVars

SpecDecode == InitDecode /\ [][NextDecode]_vars

\* Category level: one load task over every property record a lookup can
\* return for an id
CategoryIdArrays == {<<1>>, <<1, 2>>}

NextCategory ==
    \/ (\E l \in Pending, model \in AppModelIDs, idsArray \in CategoryIdArrays :
            ModelLoaded(l, model, idsArray)) /\ UNCHANGED sceneVars
    \/ (\E l \in Pending, outcome \in {"ok", "noType"}, props \in PropsValues :
            ProcessId(l, outcome, props))
          /\ UNCHANGED sceneVars

SpecCategory == InitDecode /\ [][NextCategory]_vars

-----------------------------------------------------------------------------
(* The scene: a loaded model, its meshes and materials *)

\* explode effect runs with a positive amount between two resets
MaxExplodeRuns == 2

\* the length unit of the model geometry; every halving the explode effect
\* does within MaxExplodeRuns runs is exact on multiples of it
Unit == 2 ^ (MaxExplodeRuns + 1)

\* the explode slider: min 0, max 2
ExplodeAmounts_beyond == {0, 1, 2, 3}

ExplodeAmounts == {0, 1, 2}

\* geometry.boundingBox of a subset, in the mesh's own frame: extents along x
BoundingBoxes ==
    {Box(Vec(0, 0, 0), Vec(Unit, 0, 0)),
     Box(Vec(0, 0, 0), Vec(4 * Unit, 0, 0)),
     Box(Vec(3 * Unit, 0, 0), Vec(4 * Unit, 0, 0))}

\* subset.position at the time the descriptor is built
InitialPositions == {Origin, Vec(Unit, 0, 0)}

\* the expressIDs, in list order, of the models the scene is started with
SceneIdLists == {<<1>>, <<1, 2>>}

Meshes(comps) == {comps[i].mesh : i \in DOMAIN comps}

\* Box3.expandByObject(mesh): the bounding box moved to the mesh's position
WorldBox(mesh, pos) ==
    Box(add(boundingBox[mesh].min, pos[mesh]),
        add(boundingBox[mesh].max, pos[mesh]))

\* modelBox: expandByObject over the list, at the meshes' current positions
ModelBox(comps, pos) == Union({WorldBox(m, pos) : m \in Meshes(comps)})

\* centroid effect, the map: boundingBox.getCenter, applyMatrix4(matrixWorld)
Centroids(comps, pos) ==
    [i \in DOMAIN comps |->
        add(getCenter(boundingBox[comps[i].mesh]), pos[comps[i].mesh])]

\* centroid effect: computed when the cache is empty, reset on an empty list
CentroidEffect_always(comps, cached, pos) ==
    IF Len(comps) > 0 THEN Centroids(comps, pos) ELSE <<>>

CentroidEffect(comps, cached, pos) ==
    IF Len(comps) > 0 /\ Len(cached) = 0 THEN Centroids(comps, pos)
    ELSE IF Len(comps) = 0 THEN <<>>
    ELSE cached

\* mesh.position.copy(component.initialPosition)
ResetPosition_keep(current, initialPosition) == current

ResetPosition(current, initialPosition) == initialPosition

\* direction = subVectors(centroid, modelCenter).normalize();
\* offset = direction.multiplyScalar(explodeAmount * modelSize * 0.5)
ExplodeOffset(centroid, modelCenter, modelSize, amount) ==
    multiplyScalar(normalize(subVectors(centroid, modelCenter)),
                   (amount * modelSize) \div 2)

\* explode effect: skipped without components or centroids; the model box
\* is taken before any position is written
ExplodeEffect(comps, centroids, amount, pos) ==
    IF Len(comps) = 0 \/ Len(centroids) = 0 THEN pos
    ELSE LET modelBox == ModelBox(comps, pos)
             modelCenter == getCenter(modelBox)
             modelSize == length(getSize(modelBox))
             Moved(i) ==
                 LET p == ResetPosition(pos[comps[i].mesh],
                                        comps[i].initialPosition)
                 IN  IF amount > 0
                     THEN add(p, ExplodeOffset(centroids[i], modelCenter,
                                               modelSize, amount))
                     ELSE p
         IN  [m \in DOMAIN pos |->
                 IF m \in Meshes(comps)
                 THEN Moved(CHOOSE i \in DOMAIN comps : comps[i].mesh = m)
                 ELSE pos[m]]

\* the material object a subset is created with, and the MeshBasicMaterial
\* a highlight puts on a mesh
IfcMaterial(key) == <<"ifc", key>>

HighlightMaterial(mesh) == <<"basic", mesh>>

\* IFCModel effect, one mesh: its material and its stored original material
MeshMaterial(c, mat, orig) ==
    IF c.highlighted THEN HighlightMaterial(c.mesh)
    ELSE IF orig[c.mesh] # Null THEN orig[c.mesh][1]
    ELSE mat[c.mesh]

StoredMaterial(c, mat, orig) ==
    IF c.highlighted
    THEN (IF orig[c.mesh] = Null THEN Some(mat[c.mesh]) ELSE orig[c.mesh])
    ELSE Null

ComponentOf(comps, mesh) ==
    comps[CHOOSE i \in DOMAIN comps : comps[i].mesh = mesh]

\* IFCModel effect over the list; a new MeshBasicMaterial has no clip plane
HighlightEffect(comps, mat, orig, planes) ==
    [material |->
        [m \in DOMAIN mat |->
            IF m \in Meshes(comps)
            THEN MeshMaterial(ComponentOf(comps, m), mat, orig) ELSE mat[m]],
     originalMaterial |->
        [m \in DOMAIN orig |->
            IF m \in Meshes(comps)
            THEN StoredMaterial(ComponentOf(comps, m), mat, orig) ELSE orig[m]],
     clippingPlanes |->
        [k \in DOMAIN planes |->
            IF \E m \in Meshes(comps) :
                  ComponentOf(comps, m).highlighted /\ k = HighlightMaterial(m)
            THEN <<>> ELSE planes[k]]]

\* the effects that run after a render with a new component list: the
\* centroid effect and the explode effect of IFCViewer, the effect of IFCModel
ComponentEffects ==
    LET shown == HighlightEffect(components', material, originalMaterial,
                                 clippingPlanes)
    IN  /\ explodeAmount > 0 => explodeRuns < MaxExplodeRuns
        /\ originalCentroids' =
              CentroidEffect(components', originalCentroids, position)
        /\ position' = ExplodeEffect(components', originalCentroids',
                                     explodeAmount, position)
        /\ explodeRuns' = IF explodeAmount > 0 THEN explodeRuns + 1 ELSE 0
        /\ material' = shown.material
        /\ originalMaterial' = shown.originalMaterial
        /\ clippingPlanes' = shown.clippingPlanes
        /\ UNCHANGED <<explodeAmount, boundingBox, isSplitModeLocal,
                       splitPosition, clipAxis>>

\* a list update made while the measurement tool is not touched
RenderComponents == ComponentEffects /\ UNCHANGED <<measureVars, panelVars>>

\* the App and viewer state once a load of the listed components resolved
Loaded(comps) ==
    /\ components = comps
    /\ loading = FALSE
    /\ error = Null
    /\ ifcManager = Some(1)
    /\ modelID = Some(0)
    /\ selectedId = Null
    /\ showComponentsList = FALSE
    /\ loads = <<>>
    /\ subsets = Meshes(comps)
    /\ nextLoader = 1
    /\ lastOp = [op |-> "render"]

\* the scene once that load resolved and the effects ran, with the tools as
\* mounted; shared tells whether the subsets were given one material object
InScene(comps, boxes, shared) ==
    /\ boundingBox = boxes
    /\ position = [m \in Meshes(comps) |-> ComponentOf(comps, m).initialPosition]
    /\ originalCentroids = Centroids(comps, position)
    /\ explodeAmount = 0
    /\ explodeRuns = 0
    /\ isSplitModeLocal = FALSE
    /\ splitPosition = 50
    /\ clipAxis = "x"
    /\ material = [m \in Meshes(comps) |->
                      IfcMaterial(IF shared THEN <<1, 0>> ELSE m)]
    /\ originalMaterial = [m \in Meshes(comps) |-> Null]
    /\ clippingPlanes =
          [k \in {IfcMaterial(<<1, 0>>)}
                 \cup {IfcMaterial(m) : m \in Meshes(comps)}
                 \cup {HighlightMaterial(m) : m \in Meshes(comps)} |-> <<>>]
    /\ isMeasuring = FALSE
    /\ points = <<>>
    /\ lines = <<>>
    /\ results = <<>>
    /\ PanelsAsMounted

\* the descriptors of a model with the given ids and subset positions
SceneComponents(ids, p0) ==
    [i \in DOMAIN ids |->
        [Component(1, ids[i], WallProps) EXCEPT !.initialPosition = p0[i]]]

-----------------------------------------------------------------------------
(* Explode: the slider, and the list updates that run the explode effect   *)
(* again, from a loaded model of any geometry                              *)

InitExplode ==
    \E ids \in SceneIdLists :
      \E p0 \in [DOMAIN ids -> InitialPositions],
         boxes \in [{<<1, ids[i]>> : i \in DOMAIN ids} -> BoundingBoxes] :
        /\ Loaded(SceneComponents(ids, p0))
        /\ InScene(SceneComponents(ids, p0), boxes, FALSE)

\* the explode slider's onChange: setExplodeAmount, then the explode effect
SetExplodeAmount(amount) ==
    /\ amount # explodeAmount
    /\ amount > 0 => explodeRuns < MaxExplodeRuns
    /\ explodeAmount' = amount
    /\ position' = ExplodeEffect(components, originalCentroids, amount, position)
    /\ explodeRuns' = IF amount > 0 THEN explodeRuns + 1 ELSE 0
    /\ lastOp' = [op |-> "explode"]
    /\ UNCHANGED <<components, loading, error, ifcManager, modelID, selectedId,
                   showComponentsList, loads, subsets, nextLoader>>
    /\ UNCHANGED <<originalCentroids, boundingBox, clipVars, measureVars,
                   panelVars>>

NextExplode ==
    \/ \E amount \in ExplodeAmounts : SetExplodeAmount(amount)
    \/ (\E id \in IdValues : PanelToggle(id)) /\ RenderComponents
    \/ (\E id \in IdValues : PanelHighlight(id)) /\ RenderComponents

SpecExplode == InitExplode /\ [][NextExplode]_vars

-----------------------------------------------------------------------------
(* Clipping: the split toggle, the axis selector and the position slider,  *)
(* with the highlight updates that swap materials                          *)

ClipAxes == {"x", "y", "z"}

\* the split position slider: min 0, max 100
SplitPositions == {0, 50, 100}

\* new THREE.Plane(normal, -splitPosition / 10), normal along clipAxis
Plane_positive(axis, pos) ==
    [normal |-> Vec(IF axis = "x" THEN 1 ELSE 0, IF axis = "y" THEN 1 ELSE 0,
                    IF axis = "z" THEN 1 ELSE 0),
     constant |-> pos \div 10]

Plane(axis, pos) ==
    [normal |-> Vec(IF axis = "x" THEN 1 ELSE 0, IF axis = "y" THEN 1 ELSE 0,
                    IF axis = "z" THEN 1 ELSE 0),
     constant |-> (0 - pos) \div 10]

\* scene.traverse: the material objects the meshes of the scene have now
Traversed(mat) == {mat[m] : m \in DOMAIN mat}

\* mat.clippingPlanes = []
ClearPlanes(planes, mat) ==
    [k \in DOMAIN planes |-> IF k \in Traversed(mat) THEN <<>> ELSE planes[k]]

\* mat.clippingPlanes = [plane]
AssignPlane_push(planes, mat, plane) ==
    [k \in DOMAIN planes |->
        IF k \in Traversed(mat) THEN Append(planes[k], plane) ELSE planes[k]]

AssignPlane(planes, mat, plane) ==
    [k \in DOMAIN planes |->
        IF k \in Traversed(mat) THEN <<plane>> ELSE planes[k]]

\* the cleanup the ClippingPlanes effect returned when it ran in split mode
ClippingCleanup(wasActive, planes, mat) ==
    IF wasActive THEN ClearPlanes(planes, mat) ELSE planes

\* the body of the ClippingPlanes effect
ClippingBody(active, axis, pos, planes, mat) ==
    IF ~active THEN ClearPlanes(planes, mat)
    ELSE AssignPlane(planes, mat, Plane(axis, pos))

\* the ClippingPlanes effect after a render that changed isSplitMode,
\* splitPosition or clipAxis: cleanup of the previous run, then the body
ClippingEffect(wasActive, active, axis, pos, planes, mat) ==
    ClippingBody(active, axis, pos, ClippingCleanup(wasActive, planes, mat), mat)

InitClip ==
    \E ids \in SceneIdLists, shared \in BOOLEAN :
      LET comps == SceneComponents(ids, [i \in DOMAIN ids |-> Origin])
      IN  /\ Loaded(comps)
          /\ InScene(comps,
                     [m \in Meshes(comps) |->
                         Box(Vec(0, 0, 0), Vec(Unit, 0, 0))], shared)

HandleToggleSplitMode ==
    /\ isSplitModeLocal' = ~isSplitModeLocal
    /\ clippingPlanes' =
          ClippingEffect(isSplitModeLocal, isSplitModeLocal', clipAxis,
                         splitPosition, clippingPlanes, material)
    /\ lastOp' = [op |-> "toggleSplit"]
    /\ UNCHANGED <<components, loading, error, ifcManager, modelID, selectedId,
                   showComponentsList, loads, subsets, nextLoader>>
    /\ UNCHANGED <<explodeVars, splitPosition, clipAxis, material,
                   originalMaterial, measureVars, panelVars>>

\* the axis selector's onChange
SetClipAxis(axis) ==
    /\ axis # clipAxis
    /\ clipAxis' = axis
    /\ clippingPlanes' =
          ClippingEffect(isSplitModeLocal, isSplitModeLocal, axis,
                         splitPosition, clippingPlanes, material)
    /\ lastOp' = [op |-> "clipAxis"]
    /\ UNCHANGED <<components, loading, error, ifcManager, modelID, selectedId,
                   showComponentsList, loads, subsets, nextLoader>>
    /\ UNCHANGED <<explodeVars, isSplitModeLocal, splitPosition, material,
                   originalMaterial, measureVars, panelVars>>

\* the split position slider, rendered in split mode only
HandleSplitPositionChange(pos) ==
    /\ isSplitModeLocal
    /\ pos # splitPosition
    /\ splitPosition' = pos
    /\ clippingPlanes' =
          ClippingEffect(isSplitModeLocal, isSplitModeLocal, clipAxis, pos,
                         clippingPlanes, material)
    /\ lastOp' = [op |-> "splitPosition"]
    /\ UNCHANGED <<components, loading, error, ifcManager, modelID, selectedId,
                   showComponentsList, loads, subsets, nextLoader>>
    /\ UNCHANGED <<explodeVars, isSplitModeLocal, clipAxis, material,
                   originalMaterial, measureVars, panelVars>>

NextClip ==
    \/ HandleToggleSplitMode
    \/ \E axis \in ClipAxes : SetClipAxis(axis)
    \/ \E pos \in SplitPositions : HandleSplitPositionChange(pos)
    \/ (\E id \in IdValues : PanelHighlight(id)) /\ RenderComponents
    \/ (\E hit \in Hits : SceneClick(hit) /\
           IF hit # Null /\ Truthy(hit[1]) THEN RenderComponents
           ELSE UNCHANGED sceneVars)

SpecClip == InitClip /\ [][NextClip]_vars

-----------------------------------------------------------------------------
(* Canvas clicks: the pick of SceneSetup and the measurement tool, both    *)
(* listening to the same click                                             *)

\* measurements completed in one behaviour
MaxResults == 1

\* world points a ray can hit
HitPoints == {Vec(0, 0, 0), Vec(3, 4, 0), Vec(3, 0, 0)}

HitDistances == {1, 2}

\* one entry of raycaster.intersectObjects: distance along the ray, point,
\* and object.userData.expressID (null when the object carries none)
Intersections ==
    [distance : HitDistances, point : HitPoints,
     expressID : {Null} \cup {Some(v) : v \in HitIds}]

\* a second object on the ray, not nearer than any first one
FartherHits ==
    {c \in Intersections :
        c.distance = Max(HitDistances) /\ c.point = Vec(3, 0, 0)}

\* the results of intersectObjects, ordered by distance: no hit, one hit,
\* or two hits
Intersects ==
    {<<>>} \cup {<<a>> : a \in Intersections}
           \cup {<<a, b>> : a \in Intersections, b \in FartherHits}

\* intersects[0]
NearestHit_last(intersects) == intersects[Len(intersects)]

NearestHit(intersects) == intersects[1]

\* SceneSetup.handleClick: what it passes to onSceneClick, if anything
PickedHit(intersects) ==
    IF Len(intersects) > 0 THEN Some(NearestHit(intersects).expressID)
    ELSE Null

\* setPoints([newPoint])
CapturePoint_dropped(pts, newPoint) == pts

CapturePoint(pts, newPoint) == <<newPoint>>

\* onMeasurementComplete(point1, point2, point1.distanceTo(point2))
Measurement_manhattan(point1, point2) ==
    [p1 |-> point1, p2 |-> point2,
     distance |-> Abs(point1.x - point2.x) + Abs(point1.y - point2.y)
                      + Abs(point1.z - point2.z)]

Measurement(point1, point2) ==
    [p1 |-> point1, p2 |-> point2, distance |-> distanceTo(point1, point2)]

\* MeasurementSystem effect on isActive: an inactive tool holds no point
InactiveReset_keep(active, value) == value

InactiveReset(active, value) == IF ~active THEN <<>> ELSE value

\* MeasurementSystem.handleClick: `if (!isActive) return`, then
\* `if (intersects.length > 0)`
Accepted_inactive(active, intersects) == Len(intersects) > 0

Accepted(active, intersects) == active /\ Len(intersects) > 0

\* MeasurementSystem.handleClick, with handleMeasurementComplete and the
\* effect of the render that follows
MeasurementClick(intersects) ==
    IF ~Accepted(isMeasuring, intersects) THEN UNCHANGED measureVars
    ELSE LET newPoint == NearestHit(intersects).point
         IN  IF Len(points) = 0
             THEN /\ points' = CapturePoint(points, newPoint)
                  /\ UNCHANGED <<isMeasuring, lines, results>>
             ELSE IF Len(points) = 1
             THEN /\ results' = Append(results, Measurement(points[1], newPoint))
                  /\ isMeasuring' = FALSE
                  /\ points' = InactiveReset(isMeasuring', <<points[1], newPoint>>)
                  /\ lines' = InactiveReset(isMeasuring', <<<<points[1], newPoint>>>>)
             ELSE UNCHANGED measureVars

\* a click on the canvas: both listeners run
CanvasClick(intersects) ==
    /\ SceneClick(PickedHit(intersects))
    /\ MeasurementClick(intersects)
    /\ UNCHANGED panelVars
    /\ IF PickedHit(intersects) # Null /\ Truthy(PickedHit(intersects)[1])
       THEN ComponentEffects
       ELSE UNCHANGED <<explodeVars, clipVars>>

\* handleToggleMeasurement, and the MeasurementSystem effect on isActive
HandleToggleMeasurement ==
    /\ ~isMeasuring => Len(results) < MaxResults
    /\ isMeasuring' = ~isMeasuring
    /\ points' = InactiveReset(isMeasuring', points)
    /\ lines' = InactiveReset(isMeasuring', lines)
    /\ lastOp' = [op |-> "toggleMeasure", captured |-> Len(points)]
    /\ UNCHANGED <<components, loading, error, ifcManager, modelID, selectedId,
                   showComponentsList, loads, subsets, nextLoader>>
    /\ UNCHANGED <<explodeVars, clipVars, results, panelVars>>

InitMeasure ==
    \E ids \in SceneIdLists :
      LET comps == SceneComponents(ids, [i \in DOMAIN ids |-> Origin])
      IN  /\ Loaded(comps)
          /\ InScene(comps,
                     [m \in Meshes(comps) |->
                         Box(Vec(0, 0, 0), Vec(Unit, 0, 0))], FALSE)

NextMeasure ==
    \/ HandleToggleMeasurement
    \/ \E intersects \in Intersects : CanvasClick(intersects)

SpecMeasure == InitMeasure /\ [][NextMeasure]_vars

-----------------------------------------------------------------------------
(* Every operation on a loaded model that is neither a load nor a clear:   *)
(* the list of the viewer, the panel, picks, the explode slider and the    *)
(* clip controls, on a model of two components; the slider moves between  *)
(* 0 and 1, the clip axis is changed to y and the split position to 0      *)

InitTools ==
    LET comps == SceneComponents(<<1, 2>>, <<Origin, Vec(Unit, 0, 0)>>)
    IN  /\ Loaded(comps)
        /\ InScene(comps,
                   [m \in Meshes(comps) |-> Box(Vec(0, 0, 0), Vec(Unit, 0, 0))],
                   TRUE)

NextTools ==
    \/ ToggleComponentsList /\ UNCHANGED sceneVars
    \/ (\E id \in IdValues : ListClick(id)) /\ RenderComponents
    \/ (\E id \in IdValues : ListCheckbox(id)) /\ RenderComponents
    \/ (\E id \in IdValues : PanelToggle(id)) /\ RenderComponents
    \/ (\E id \in IdValues : PanelHighlight(id)) /\ RenderComponents
    \/ (\E hit \in Hits : SceneClick(hit) /\
           IF hit # Null /\ Truthy(hit[1]) THEN RenderComponents
           ELSE UNCHANGED sceneVars)
    \/ \E amount \in {0, 1} : SetExplodeAmount(amount)
    \/ HandleToggleSplitMode
    \/ \E axis \in {"y"} : SetClipAxis(axis)
    \/ \E pos \in {0} : HandleSplitPositionChange(pos)

SpecTools == InitTools /\ [][NextTools]_vars

-----------------------------------------------------------------------------
(* Models coming and going: loads that resolve into the scene, one after   *)
(* the other, and Clear, with the centroid effect that follows each        *)

\* geometry.boundingBox of the subset a loader creates for an id: the files
\* differ, and so do the elements of one file
SubsetBox(m) == Box(Origin, Vec(m[1] * m[2] * Unit, 0, 0))

\* the subsets the loaders can create
AllSubsets == (1..MaxLoads) \X {1, 2}

InitCentroids ==
    /\ components = <<>>
    /\ loading = FALSE
    /\ error = Null
    /\ ifcManager = Null
    /\ modelID = Null
    /\ selectedId = Null
    /\ showComponentsList = FALSE
    /\ loads = <<>>
    /\ subsets = {}
    /\ nextLoader = 0
    /\ lastOp = [op |-> "mount"]
    /\ explodeAmount = 0
    /\ originalCentroids = <<>>
    /\ boundingBox = [m \in AllSubsets |-> SubsetBox(m)]
    /\ position = <<>>
    /\ explodeRuns = 0
    /\ isSplitModeLocal = FALSE
    /\ splitPosition = 50
    /\ clipAxis = "x"
    /\ material = <<>>
    /\ originalMaterial = <<>>
    /\ clippingPlanes = <<>>
    /\ isMeasuring = FALSE
    /\ points = <<>>
    /\ lines = <<>>
    /\ results = <<>>
    /\ PanelsAsMounted

\* the render after a load resolved: IFCModel mounts the new meshes, then
\* the centroid effect and the explode effect run
MountModel ==
    LET comps == components'
        pos0  == [m \in Meshes(comps) |-> ComponentOf(comps, m).initialPosition]
    IN  /\ originalCentroids' = CentroidEffect(comps, originalCentroids, pos0)
        /\ position' = ExplodeEffect(comps, originalCentroids', explodeAmount, pos0)
        /\ material' = [m \in Meshes(comps) |-> IfcMaterial(m)]
        /\ originalMaterial' = [m \in Meshes(comps) |-> Null]
        /\ clippingPlanes' =
              [k \in {IfcMaterial(m) : m \in Meshes(comps)}
                     \cup {HighlightMaterial(m) : m \in Meshes(comps)} |-> <<>>]
        /\ UNCHANGED <<explodeAmount, boundingBox, explodeRuns,
                       isSplitModeLocal, splitPosition, clipAxis, measureVars,
                       panelVars>>

\* handleClearIFCFile, the viewer's own state, and the effects of the render
\* with an empty list
ClearScene ==
    /\ originalCentroids' = <<>>
    /\ position' = <<>>
    /\ material' = <<>>
    /\ originalMaterial' = <<>>
    /\ clippingPlanes' = <<>>
    /\ isSplitModeLocal' = FALSE
    /\ splitPosition' = 50
    /\ clipAxis' = "x"
    /\ isMeasuring' = FALSE
    /\ points' = <<>>
    /\ lines' = <<>>
    /\ properties' = Null
    /\ UNCHANGED <<explodeAmount, boundingBox, explodeRuns, results, lookups,
                   filterVars>>

NextCentroids ==
    \/ (\E file \in Files :
            /\ file # Null
            /\ HasIfcExtension(file[1].name)
            /\ WithinSizeLimit(file[1].size)
            /\ HandleFileUpload(file)) /\ UNCHANGED sceneVars
    \/ (\E l \in Pending, idsArray \in CategoryIdArrays :
            ModelLoaded(l, 0, idsArray)) /\ UNCHANGED sceneVars
    \/ \E l \in Pending :
          /\ ProcessId(l, "ok", WallProps)
          /\ IF l \in DOMAIN loads' THEN UNCHANGED sceneVars ELSE MountModel
    \/ HandleClearIFCFile /\ ClearScene
    \/ (\E id \in IdValues : PanelToggle(id)) /\ RenderComponents

SpecCentroids == InitCentroids /\ [][NextCentroids]_vars

-----------------------------------------------------------------------------
(* The properties of the selected component: selections on a loaded model  *)
(* of two components, the lookups they start, and Clear                    *)

\* loadProperties, the effect on [selectedId, ifcManager, modelID]: a lookup
\* is started when all three are truthy, else the properties are emptied
PropertiesEffect ==
    IF <<selectedId', ifcManager', modelID'>> = <<selectedId, ifcManager, modelID>>
    THEN UNCHANGED propertyVars
    ELSE IF ifcManager' # Null /\ Truthy(modelID') /\ Truthy(selectedId')
         THEN /\ lookups' = lookups \cup {selectedId'[1]}
              /\ UNCHANGED properties
         ELSE /\ properties' = Null
              /\ UNCHANGED lookups

\* loadProperties after its await: getItemProperties for id returned the
\* record of id, or threw
LookupSettles(id, ok) ==
    /\ id \in lookups
    /\ lookups' = lookups \ {id}
    /\ properties' = IF ok THEN Some(id) ELSE Null
    /\ lastOp' = [op |-> "properties", id |-> id]
    /\ UNCHANGED <<components, loading, error, ifcManager, modelID, selectedId,
                   showComponentsList, loads, subsets, nextLoader>>
    /\ UNCHANGED <<explodeVars, clipVars, measureVars, filterVars>>

InitProperties ==
    LET comps == SceneComponents(<<1, 2>>, <<Origin, Vec(Unit, 0, 0)>>)
    IN  /\ components = comps
        /\ loading = FALSE
        /\ error = Null
        /\ ifcManager = Some(1)
        /\ modelID \in {Some(model) : model \in ModelIDs}
        /\ selectedId = Null
        /\ showComponentsList \in BOOLEAN
        /\ loads = <<>>
        /\ subsets = Meshes(comps)
        /\ nextLoader = 1
        /\ lastOp = [op |-> "render"]
        /\ InScene(comps,
                   [m \in Meshes(comps) |->
                       Box(Vec(0, 0, 0), Vec(Unit, 0, 0))], FALSE)

NextProperties ==
    \/ \E hit \in Hits :
          /\ SceneClick(hit)
          /\ IF hit # Null /\ Truthy(hit[1])
             THEN ComponentEffects
             ELSE UNCHANGED <<explodeVars, clipVars>>
          /\ PropertiesEffect
          /\ UNCHANGED <<measureVars, filterVars>>
    \/ \E id \in IdValues :
          /\ ListClick(id)
          /\ ComponentEffects
          /\ PropertiesEffect
          /\ UNCHANGED <<measureVars, filterVars>>
    \/ \E id \in lookups, ok \in BOOLEAN : LookupSettles(id, ok)
    \/ HandleClearIFCFile /\ ClearScene

SpecProperties == InitProperties /\ [][NextProperties]_vars

-----------------------------------------------------------------------------
(* The component panel: search, type filter, "show only visible", and the  *)
(* Show All / Hide All buttons                                             *)

\* the characters of the strings the panel searches in
Spelling(part) ==
    CASE part = "Wall" -> <<"W", "a", "l", "l">>
      [] part = "Slab" -> <<"S", "l", "a", "b">>
      [] part = "IFCWALL" -> <<"I", "F", "C", "W", "A", "L", "L">>
      [] part = "IFCSLAB" -> <<"I", "F", "C", "S", "L", "A", "B">>

\* a name or type as the string the filter reads
Chars(text) ==
    LET F[k \in 0..Len(text)] ==
            IF k = 0 THEN <<>> ELSE F[k - 1] \o Spelling(text[k])
    IN  F[Len(text)]

\* String.prototype.includes
includes(s, sub) ==
    \E i \in 0..(Len(s) - Len(sub)) : SubSeq(s, i + 1, i + Len(sub)) = sub

\* what the search box can hold
SearchTerms ==
    {<<>>, <<"w", "a", "l", "l">>, <<"S", "L", "A", "B">>, <<"x">>}

\* the options of the type select: 'all' and the types present
TypeOptions(comps) == {Text("all")} \cup {comps[i].type : i \in DOMAIN comps}

\* the components the panel lists under the current filters
filteredComponents_all(comps, term, type, onlyVisible) == comps

filteredComponents(comps, term, type, onlyVisible) ==
    LET matchesSearch(c) ==
            \/ includes(toLowerCase(Chars(c.name)), toLowerCase(term))
            \/ includes(toLowerCase(Chars(c.type)), toLowerCase(term))
        matchesType(c) == type = Text("all") \/ c.type = type
        matchesVisibility(c) == ~onlyVisible \/ c.visible
        keep(c) == matchesSearch(c) /\ matchesType(c) /\ matchesVisibility(c)
    IN  IF Len(comps) = 0 THEN <<>> ELSE SelectSeq(comps, keep)

\* filtered.forEach: one functional update per component whose flag differs
handleToggleAll(comps, filtered, visible) ==
    LET F[k \in 0..Len(filtered)] ==
            IF k = 0 THEN comps
            ELSE IF filtered[k].visible # visible
                 THEN handleComponentToggle(F[k - 1], filtered[k].id)
                 ELSE F[k - 1]
    IN  F[Len(filtered)]

\* Show All (visible = TRUE) / Hide All (visible = FALSE)
HandleToggleAll(visible) ==
    /\ components' =
          handleToggleAll(components,
                          filteredComponents(components, searchTerm,
                                             selectedType, showOnlyVisible),
                          visible)
    /\ lastOp' = [op |-> "toggleAll", visible |-> visible]
    /\ UNCHANGED <<loading, error, ifcManager, modelID, selectedId,
                   showComponentsList, loads, subsets, nextLoader>>

\* the search box
SetSearchTerm(term) ==
    /\ searchTerm' = term
    /\ lastOp' = [op |-> "search"]
    /\ UNCHANGED <<components, loading, error, ifcManager, modelID,
                   selectedId, showComponentsList, loads, subsets,
                   nextLoader, explodeVars, clipVars, measureVars,
                   propertyVars, selectedType, showOnlyVisible>>

\* the type select
SetSelectedType(type) ==
    /\ type \in TypeOptions(components)
    /\ selectedType' = type
    /\ lastOp' = [op |-> "type"]
    /\ UNCHANGED <<components, loading, error, ifcManager, modelID,
                   selectedId, showComponentsList, loads, subsets,
                   nextLoader, explodeVars, clipVars, measureVars,
                   propertyVars, searchTerm, showOnlyVisible>>

\* the "Show only visible" checkbox
SetShowOnlyVisible(checked) ==
    /\ showOnlyVisible' = checked
    /\ lastOp' = [op |-> "onlyVisible"]
    /\ UNCHANGED <<components, loading, error, ifcManager, modelID,
                   selectedId, showComponentsList, loads, subsets,
                   nextLoader, explodeVars, clipVars, measureVars,
                   propertyVars, searchTerm, selectedType>>

\* two walls of different type and a slab
PanelComponents ==
    <<Component(1, 1, WallProps),
      Component(1, 2, [Name |-> Some("Wall"), type |-> Some(2)]),
      Component(1, 3, [Name |-> Some("Slab"), type |-> Some(2)])>>

InitPanel ==
    /\ components = PanelComponents
    /\ loading = FALSE
    /\ error = Null
    /\ ifcManager = Some(1)
    /\ modelID = Some(1)
    /\ selectedId = Null
    /\ showComponentsList = FALSE
    /\ loads = <<>>
    /\ subsets = Meshes(PanelComponents)
    /\ nextLoader = 1
    /\ lastOp = [op |-> "render"]
    /\ InScene(PanelComponents,
               [m \in Meshes(PanelComponents) |->
                   Box(Vec(0, 0, 0), Vec(Unit, 0, 0))], FALSE)

NextPanel ==
    \/ \E visible \in BOOLEAN : HandleToggleAll(visible) /\ RenderComponents
    \/ \E id \in Ids(components) : PanelToggle(id) /\ RenderComponents
    \/ \E term \in SearchTerms : SetSearchTerm(term)
    \/ \E type \in TypeOptions(components) : SetSelectedType(type)
    \/ \E checked \in BOOLEAN : SetShowOnlyVisible(checked)

SpecPanel == InitPanel /\ [][NextPanel]_vars

-----------------------------------------------------------------------------
(* Vocabulary of the properties *)

Highlighted(comps) == {i \in DOMAIN comps : comps[i].highlighted}

\* exactly the components with id X are highlighted
OnlyHighlighted(comps, X) ==
    \A i \in DOMAIN comps : comps[i].highlighted <=> (comps[i].id = X)

\* the distinct positive values of an expressID array, in first-seen order,
\* read off the array itself
FirstSeenIds(idsArray) ==
    LET F[i \in 0..Len(idsArray)] ==
            IF i = 0 THEN <<>>
            ELSE IF idsArray[i] > 0 /\ \A j \in 1..(i - 1) : idsArray[j] # idsArray[i]
                 THEN Append(F[i - 1], idsArray[i])
                 ELSE F[i - 1]
    IN  F[Len(idsArray)]

\* n: how many distinct positive ids the array holds
DistinctPositive(idsArray) ==
    Cardinality({idsArray[i] : i \in DOMAIN idsArray} \cap {v \in IdValues : v > 0})

\* k: how many lookups of the log failed
FailedLookups(log) == Cardinality({j \in DOMAIN log : log[j] # "ok"})

\* the ids whose lookup succeeded, in first-seen order
SurvivingIds(idsArray, log) ==
    LET ids == FirstSeenIds(idsArray)
        G[k \in 0..Len(ids)] ==
            IF k = 0 THEN <<>>
            ELSE IF k <= Len(log) /\ log[k] = "ok" THEN Append(G[k - 1], ids[k])
                 ELSE G[k - 1]
    IN  G[Len(ids)]

\* the complete result of a load: one fresh component per surviving id
FullResult(loader, idsArray, log) ==
    LET ids == SurvivingIds(idsArray, log)
    IN  [k \in 1..Len(ids) |->
            [id |-> ids[k], name |-> <<"Wall">>, type |-> <<"IFCWALL">>,
             mesh |-> <<loader, ids[k]>>,
             visible |-> TRUE, highlighted |-> FALSE,
             initialPosition |-> Origin]]

Settled == lastOp.op \in {"resolved", "rejected"}

\* the tasks that belong to a load
LoadOps == {"upload", "public", "fetched", "failed", "scanned", "processed",
            "resolved", "rejected"}

\* the input passes the load-validation contract
ValidInput(file) ==
    /\ Len(file.name) >= 4
    /\ toLowerCase(SubSeq(file.name, Len(file.name) - 3, Len(file.name))) = IfcSuffix
    /\ file.size <= 100 * 1024 * 1024

-----------------------------------------------------------------------------
(* C1: in every reachable state of the component list at most one          *)
(* component has highlighted = true.                                       *)
C1_AtMostOneHighlighted == Cardinality(Highlighted(components)) <= 1

\* two components are listed, one of them highlighted through the panel
C1_Witness ==
    /\ Len(components) = 2
    /\ Cardinality(Highlighted(components)) = 1
    /\ lastOp.op = "panelHighlight"

C3_AtMostOneLoadInFlight == Cardinality(Pending) <= 1

(* C4: a load installs the complete list of surviving components or        *)
(* nothing: no task of a load changes the component list, except the one   *)
(* that resolves it, and that one installs the full result - every         *)
(* distinct positive id of the array was looked up and every id whose      *)
(* lookup succeeded is there, in first-seen order.                         *)
C4_CompleteOrNothing ==
    [][lastOp'.op \in LoadOps =>
          \/ components' = components
          \/ /\ lastOp'.op = "resolved"
             /\ Len(lastOp'.log) = DistinctPositive(lastOp'.idsArray)
             /\ components' =
                   FullResult(lastOp'.loader, lastOp'.idsArray, lastOp'.log)
      ]_vars

\* the second load of a behaviour has installed both components of an
\* array of two ids
C4_Witness ==
    /\ lastOp.op = "resolved"
    /\ Len(components) = 2
    /\ components = lastOp.components
    /\ lastOp.loader = 2

(* C5 as stated: whenever a load installs a new snapshot, every geometry   *)
(* handle of the previous snapshot has already been released.              *)
C5_ReleasedBeforeInstall ==
    [][lastOp'.op = "resolved" =>
          \A i \in DOMAIN components : components[i].mesh \notin subsets
      ]_vars

(* C6: every component produced by a decode has id > 0 and no two          *)
(* components of one decode share an id, for every expressID array.        *)
C6_DistinctPositiveIds ==
    LET Good(comps) ==
            /\ \A i \in DOMAIN comps : comps[i].id > 0
            /\ \A i, j \in DOMAIN comps : comps[i].id = comps[j].id => i = j
    IN  /\ \A l \in Pending : Good(loads[l].components)
        /\ Settled => Good(lastOp.components)
        /\ Good(components)

\* a decode of an array with a repeated id and a zero or negative value
\* has produced its components
C6_Witness ==
    /\ lastOp.op = "resolved"
    /\ components = lastOp.components
    /\ \E i, j \in DOMAIN lastOp.idsArray :
          i # j /\ lastOp.idsArray[i] = lastOp.idsArray[j] /\ lastOp.idsArray[i] > 0
    /\ \E i \in DOMAIN lastOp.idsArray : lastOp.idsArray[i] = 0
    /\ \E i \in DOMAIN lastOp.idsArray : lastOp.idsArray[i] < 0

(* C7: a per-id failure never aborts the decode: with n distinct positive  *)
(* ids of which k fail their lookup, every id is looked up, and when       *)
(* n - k > 0 the load succeeds with exactly n - k components, failure      *)
(* counter k and processed counter n - k.                                  *)
C7_PerIdFailureIsSkipped ==
    Settled =>
        LET n == DistinctPositive(lastOp.idsArray)
            k == FailedLookups(lastOp.log)
        IN  /\ Len(lastOp.log) = n
            /\ n - k > 0 =>
                  /\ lastOp.op = "resolved"
                  /\ Len(lastOp.components) = n - k
                  /\ lastOp.failedCount = k
                  /\ lastOp.processedCount = n - k
                  /\ components = lastOp.components

\* a load succeeded although the lookup of its first id failed
C7_Witness ==
    /\ lastOp.op = "resolved"
    /\ DistinctPositive(lastOp.idsArray) = 2
    /\ lastOp.log[1] # "ok"
    /\ lastOp.failedCount = 1

(* C8: if zero components survive the per-id filtering (no positive id,    *)
(* or every lookup failed) the load fails with the empty-model error and   *)
(* the component list is left unchanged.                                   *)
C8_EmptyModelFails ==
    [][(lastOp'.op \in {"resolved", "rejected"}
          /\ SurvivingIds(lastOp'.idsArray, lastOp'.log) = <<>>)
       => /\ lastOp'.op = "rejected"
          /\ error' = Some(LoadingError(NoComponentsMessage))
          /\ components' = components
          /\ lastOp'.loader \notin DOMAIN loads'
      ]_vars

\* every lookup of a load failed while a list was installed: the list stays
C8_Witness ==
    /\ lastOp.op = "rejected"
    /\ Len(lastOp.log) = 2
    /\ Len(components) > 0
    /\ error = Some(LoadingError(NoComponentsMessage))

(* C9: if the byte stream cannot be decoded or the geometry has no         *)
(* expressID attribute, the load fails as a whole and the registry is not  *)
(* mutated: no task of that load changes the component list, the decoder   *)
(* handle or the model handle.                                             *)
C9_ParseFailureLeavesRegistry ==
    [][/\ lastOp'.op \in {"upload", "public", "fetched", "failed"}
          => UNCHANGED <<components, ifcManager, modelID>>
       /\ lastOp'.op = "failed"
          => /\ lastOp'.loader \in DOMAIN loads
             /\ lastOp'.loader \notin DOMAIN loads'
             /\ \E cause \in DecodeFailures :
                   error' = Some(LoadingError(CatchMessage(cause)))
      ]_vars

\* a load failed to decode while a model was installed
C9_Witness ==
    /\ lastOp.op = "failed"
    /\ Len(components) > 0
    /\ ifcManager # Null
    /\ modelID # Null

\* a step that rejects its input with a validation error
ValidationRejects ==
    /\ loads' = loads
    /\ ~loading'
    /\ components' = components
    /\ error' \in {Some(InvalidFileError), Some(FileTooLargeError)}

(* C10 as stated: no decode is started for an input whose name does not    *)
(* end in .ifc or whose size exceeds 100 MB - the input is rejected with a *)
(* validation error, loading stays false and the component list is         *)
(* unchanged - at every entry point that starts a load.                    *)
C10_InvalidInputNeverDecoded ==
    [][/\ \A file \in Files \ {Null} :
             (HandleFileUpload(file) /\ ~ValidInput(file[1]))
             => ValidationRejects
       /\ \A l \in Pending, size \in FileSizes :
             (FetchSettles(l, TRUE, size)
                /\ ~ValidInput([name |-> PublicFileName, size |-> size]))
             => ValidationRejects
      ]_vars

-----------------------------------------------------------------------------
(* Explode *)

\* every listed mesh at the position its descriptor recorded
AtInitialPositions ==
    \A i \in DOMAIN components :
        position[components[i].mesh] = components[i].initialPosition

\* C11: whenever the explode amount is 0, every component's position equals
\* its initialPosition, whatever amounts were applied before
C11_ZeroAmountRestoresPositions == explodeAmount = 0 => AtInitialPositions

\* the slider has just been brought back to 0 from an exploded model
C11_Witness ==
    /\ lastOp.op = "explode"
    /\ explodeAmount = 0
    /\ Len(components) = 2
    /\ originalCentroids[1] # originalCentroids[2]

\* the bounds of the model: the box over the components where the decoder
\* put them
ModelBounds ==
    ModelBox(components,
             [m \in DOMAIN position |->
                 ComponentOf(components, m).initialPosition])

\* C12: after an amount a is applied, component i is at initialPosition_i +
\* normalize(centroid_i - modelCenter) * a * modelSize * 0.5, with the
\* cached centroid and the center and size of the model bounds
C12_PositionFromModelBounds ==
    lastOp.op = "explode" =>
        \A i \in DOMAIN components :
            position[components[i].mesh] =
                add(components[i].initialPosition,
                    multiplyScalar(
                        normalize(subVectors(originalCentroids[i],
                                             getCenter(ModelBounds))),
                        (explodeAmount * length(getSize(ModelBounds))) \div 2))

\* C13: a component whose cached centroid is the model center the explode
\* effect computes gets the zero offset: the effect leaves it at its
\* initialPosition, a defined vector, for every amount
C13_CentroidAtCenterStays ==
    [][\A i \in DOMAIN components :
          originalCentroids[i] = getCenter(ModelBox(components, position))
              => position'[components[i].mesh] = components[i].initialPosition]_vars

\* a model exploded by a positive amount in which one component sits at the
\* model center and stayed while another one moved
C13_Witness ==
    /\ lastOp.op = "explode"
    /\ explodeAmount > 0
    /\ \E i, j \in DOMAIN components :
          /\ originalCentroids[i] = getCenter(ModelBounds)
          /\ position[components[i].mesh] = components[i].initialPosition
          /\ position[components[j].mesh] # components[j].initialPosition

-----------------------------------------------------------------------------
(* Clipping *)

\* the clip planes on the material a listed mesh has now
PlanesOf(mesh) == clippingPlanes[material[mesh]]

\* C14: while clipping is active, the material of every component carries
\* exactly one clip plane
C14_OnePlaneWhileActive ==
    isSplitModeLocal =>
        \A i \in DOMAIN components : Len(PlanesOf(components[i].mesh)) = 1

\* C15: while clipping is off no component carries a clip plane, neither on
\* the material it has nor on the material stored for it while highlighted
C15_NoPlaneWhileInactive ==
    ~isSplitModeLocal =>
        \A i \in DOMAIN components :
            /\ PlanesOf(components[i].mesh) = <<>>
            /\ originalMaterial[components[i].mesh] # Null =>
                  clippingPlanes[originalMaterial[components[i].mesh][1]] = <<>>

\* switching split mode on, and switching it off, as the toggle does it, at
\* the axis and position of the state
ToggleOn(planes) ==
    ClippingEffect(FALSE, TRUE, clipAxis, splitPosition, planes, material)

ToggleOff(planes) ==
    ClippingEffect(TRUE, FALSE, clipAxis, splitPosition, planes, material)

\* C16: whenever the toggle switches clipping on, the clip assignment it
\* leaves is the one the sequence on, off, on leaves from the same state
C16_OnOffOnIsOn ==
    [][HandleToggleSplitMode /\ isSplitModeLocal' =>
          clippingPlanes' = ToggleOn(ToggleOff(ToggleOn(clippingPlanes)))]_vars

\* clipping has just been switched on, on another axis and position than
\* the mounted ones, and every component carries that one plane
C16_Witness ==
    /\ lastOp.op = "toggleSplit"
    /\ isSplitModeLocal
    /\ clipAxis = "z"
    /\ splitPosition = 100
    /\ Len(components) = 2
    /\ \A i \in DOMAIN components :
          PlanesOf(components[i].mesh) = <<Plane("z", 100)>>

-----------------------------------------------------------------------------
(* Picking *)

\* the click hit nothing, or its nearest hit carries no component id
NoComponentId(intersects) ==
    \/ Len(intersects) = 0
    \/ intersects[1].expressID \in {Null, Some(0)}

\* C17: a pick that hits nothing, or whose nearest hit carries no component
\* id, leaves the component list, the selected id and everything else of the
\* viewer and the scene as they were
C17_EmptyPickChangesNothing ==
    [][\A intersects \in Intersects :
          NoComponentId(intersects) /\ CanvasClick(intersects) =>
              UNCHANGED <<components, selectedId, loading, error, ifcManager,
                          modelID, showComponentsList, loads, subsets,
                          explodeVars, clipVars>>]_vars

\* a component is highlighted and selected, and the last click picked no
\* component
C17_Witness ==
    /\ lastOp.op = "sceneClick"
    /\ lastOp.id = Null
    /\ selectedId # Null
    /\ Highlighted(components) # {}

\* the intersection with the least distance, the first of them in the order
\* of the result
Nearest(intersects) ==
    intersects[CHOOSE i \in DOMAIN intersects :
                  \A j \in DOMAIN intersects :
                      \/ intersects[i].distance < intersects[j].distance
                      \/ /\ intersects[i].distance = intersects[j].distance
                         /\ i <= j]

\* C18: when the nearest intersection of a pick carries the id of a
\* component, that component and no other is highlighted afterwards, and it
\* is the selected one
C18_NearestHitIsHighlighted ==
    [][\A intersects \in Intersects \ {<<>>} :
          /\ Nearest(intersects).expressID # Null
          /\ Nearest(intersects).expressID[1] \in Ids(components)
          /\ CanvasClick(intersects)
          => /\ OnlyHighlighted(components', Nearest(intersects).expressID[1])
             /\ selectedId' = Nearest(intersects).expressID]_vars

\* component 2 was picked while component 1 exists too
C18_Witness ==
    /\ lastOp.op = "sceneClick"
    /\ lastOp.id = Some(2)
    /\ Len(components) = 2
    /\ OnlyHighlighted(components, 2)
    /\ selectedId = Some(2)

-----------------------------------------------------------------------------
(* Measuring *)

\* C19: with the tool active and no point captured, a click that hits
\* something stores the hit point as the first point, keeps the tool active
\* and emits no result
C19_FirstPickCaptures ==
    [][\A intersects \in Intersects \ {<<>>} :
          isMeasuring /\ points = <<>> /\ CanvasClick(intersects) =>
              /\ points' = <<intersects[1].point>>
              /\ isMeasuring'
              /\ results' = results]_vars

\* the tool is active with one captured point after a click
C19_Witness ==
    /\ lastOp.op = "sceneClick"
    /\ isMeasuring
    /\ Len(points) = 1
    /\ results = <<>>

SquaredDistance(a, b) ==
    (a.x - b.x) * (a.x - b.x) + (a.y - b.y) * (a.y - b.y)
        + (a.z - b.z) * (a.z - b.z)

\* C20: with one point captured, the next click that hits something emits
\* exactly one result, made of the stored point, the new point and their
\* Euclidean distance, and leaves no captured point
C20_SecondPickEmits ==
    [][\A intersects \in Intersects \ {<<>>} :
          isMeasuring /\ Len(points) = 1 /\ CanvasClick(intersects) =>
              /\ Len(results') = Len(results) + 1
              /\ SubSeq(results', 1, Len(results)) = results
              /\ results'[Len(results')].p1 = points[1]
              /\ results'[Len(results')].p2 = intersects[1].point
              /\ results'[Len(results')].distance >= 0
              /\ results'[Len(results')].distance
                    * results'[Len(results')].distance
                    = SquaredDistance(points[1], intersects[1].point)
              /\ points' = <<>>]_vars

\* the measurement from (0,0,0) to (3,4,0) was emitted with distance 5 and
\* no point is captured
C20_Witness ==
    /\ lastOp.op = "sceneClick"
    /\ results = <<[p1 |-> Vec(0, 0, 0), p2 |-> Vec(3, 4, 0), distance |-> 5]>>
    /\ points = <<>>

\* C21: switching the measurement tool off, with or without a captured
\* point, leaves no captured point and no line, and emits no result
C21_DeactivationDiscards ==
    [][isMeasuring /\ HandleToggleMeasurement =>
          /\ ~isMeasuring'
          /\ points' = <<>>
          /\ lines' = <<>>
          /\ results' = results]_vars

\* the tool was switched off while it held one captured point
C21_Witness ==
    /\ lastOp.op = "toggleMeasure"
    /\ lastOp.captured = 1
    /\ ~isMeasuring
    /\ points = <<>>
    /\ results = <<>>

-----------------------------------------------------------------------------
(* The component list *)

\* the list `after` differs from `before` at most in the visible field of
\* the components with id X, which is inverted
OnlyVisibilityOf(before, after, X) ==
    /\ Len(after) = Len(before)
    /\ \A i \in DOMAIN before :
          after[i] = IF before[i].id = X
                     THEN [before[i] EXCEPT !.visible = ~@]
                     ELSE before[i]

\* C22: a visibility change for id X, from the panel or from the viewer's
\* list, inverts the visible field of the component with id X and changes
\* nothing else of the list; for an id no component has, the update gives
\* the list back as it was
C22_VisibilityChangesOneField ==
    [][/\ \A X \in IdValues \ Ids(components) :
             /\ handleComponentToggle(components, X) = components
             /\ \A checked \in BOOLEAN :
                   ListCheckboxChange(components, X, checked) = components
       /\ \A X \in IdValues :
             PanelToggle(X) \/ ListCheckbox(X) =>
                 OnlyVisibilityOf(components, components', X)]_vars

\* of two components one was just hidden through the panel while the other
\* one is highlighted
C22_Witness ==
    /\ lastOp.op = "panelToggle"
    /\ Len(components) = 2
    /\ \E i, j \in DOMAIN components :
          /\ Some(components[i].id) = lastOp.id
          /\ ~components[i].visible
          /\ components[j].visible
          /\ components[j].highlighted

\* C23: Clear leaves the list empty and none of the listed components'
\* subsets allocated; on an empty list it changes neither the list nor the
\* allocated subsets; right after a Clear, a second Clear changes nothing
C23_ClearReleasesAndIsIdempotent ==
    [][HandleClearIFCFile =>
          /\ components' = <<>>
          /\ \A i \in DOMAIN components : components[i].mesh \notin subsets'
          /\ components = <<>> => subsets' = subsets
          /\ lastOp.op = "clear" =>
                UNCHANGED <<components, loading, error, ifcManager, modelID,
                            selectedId, showComponentsList, loads, subsets,
                            nextLoader, sceneVars>>]_vars

\* a list of two components has just been cleared and their subsets are
\* released
C23_Witness ==
    /\ lastOp.op = "clear"
    /\ lastOp.listed = 2
    /\ components = <<>>
    /\ subsets = {}

(***************************************************************************)
(* The explode amount                                                      *)
(***************************************************************************)

Ends(l) == l \in Pending /\ l \notin Pending'

\* C25: every started load ends, and it ends once, with one outcome: either
\* it resolves, and the list becomes its full component list and no error is
\* set, or it fails, and an error is set and the list is not touched; a load
\* that has ended never ends again
C25_ExactlyOneOutcome ==
    /\ \A l \in 1..MaxLoads : (l \in Pending) ~> (l \notin Pending)
    /\ [][\A l \in 1..MaxLoads :
            /\ Ends(l) =>
                 /\ lastOp'.loader = l
                 /\ IF lastOp'.op = "resolved"
                    THEN /\ components' =
                              FullResult(l, lastOp'.idsArray, lastOp'.log)
                         /\ components' # <<>>
                         /\ error' = error
                    ELSE /\ lastOp'.op \in {"rejected", "failed", "fetched"}
                         /\ error' # Null
                         /\ components' = components
            /\ l \in Pending' /\ ~ l \in Pending =>
                 /\ l = nextLoader + 1
                 /\ nextLoader' = l
            /\ nextLoader' >= nextLoader]_vars

\* a load has resolved and another one has failed
C25_Witness ==
    /\ nextLoader = 2
    /\ loads = <<>>
    /\ components # <<>>
    /\ error # Null

(***************************************************************************)
(* The identity of the list                                                *)
(***************************************************************************)

\* what a list is apart from its mutable fields: how many components, in
\* which order, with which id, name and type
Identity(comps) ==
    [i \in DOMAIN comps |->
        [id |-> comps[i].id, name |-> comps[i].name, type |-> comps[i].type]]

\* C26: visibility toggles, highlight changes, picks, explode and clip
\* operations leave the number and order of the components and every
\* component's id, name and type as they were
C26_ToolsKeepIdentity ==
    [][Identity(components') = Identity(components)]_vars

\* every kind of tool has acted on a list of two: one component is hidden,
\* the other highlighted, the model is exploded and clipped
C26_Witness ==
    /\ Len(components) = 2
    /\ \E i, j \in DOMAIN components :
          /\ ~components[i].visible
          /\ components[j].highlighted
    /\ selectedId # Null
    /\ explodeAmount > 0
    /\ isSplitModeLocal

(***************************************************************************)
(* The category of a component                                             *)
(***************************************************************************)

\* the category the type field of a property record stands for
Category(props) ==
    IF props.type = Null \/ props.type = Some(0) THEN <<"Unknown">>
    ELSE IF props.type[1] \in DOMAIN IFC_TYPES_MAP
         THEN IFC_TYPES_MAP[props.type[1]]
         ELSE <<"Type_", props.type[1]>>

\* C27: the component decoded from a property record has the table's name
\* for a type code of the table, "Type_<code>" for any other code and
\* "Unknown" for a type that is null or zero; a record without a type field
\* gives no component
C27_CategoryFromTypeCode ==
    [][\A l \in 1..MaxLoads :
          /\ \A props \in PropsValues :
                l \in Pending /\ ProcessId(l, "ok", props) =>
                    IF l \in Pending'
                    THEN loads'[l].components[Len(loads'[l].components)].type
                             = Category(props)
                    ELSE lastOp'.components[Len(lastOp'.components)].type
                             = Category(props)
          /\ l \in Pending /\ ProcessId(l, "noType", WallProps) =>
                IF l \in Pending'
                THEN loads'[l].components = loads[l].components
                ELSE lastOp'.components = loads[l].components]_vars

\* a load has resolved with a component of a listed type and one of an
\* unlisted type
C27_Witness ==
    /\ lastOp.op = "resolved"
    /\ Len(components) = 2
    /\ components[1].type = <<"IFCDOOR">>
    /\ components[2].type = <<"Type_", 7>>

(***************************************************************************)
(* The clip plane                                                          *)
(***************************************************************************)

\* the plane has the unit normal along the axis and the constant -pos / 10
AlongAxisAt(plane, axis, pos) ==
    /\ plane.normal.x = (IF axis = "x" THEN 1 ELSE 0)
    /\ plane.normal.y = (IF axis = "y" THEN 1 ELSE 0)
    /\ plane.normal.z = (IF axis = "z" THEN 1 ELSE 0)
    /\ length(plane.normal) = 1
    /\ 10 * plane.constant = 0 - pos

\* C28: right after clipping was switched on or its axis or position was
\* changed, the plane every material of the scene holds has the unit normal
\* along the chosen axis and the constant -position / 10
C28_PlaneAlongAxisAtPosition ==
    lastOp.op \in {"toggleSplit", "clipAxis", "splitPosition"} /\ isSplitModeLocal =>
        \A k \in Traversed(material) :
            /\ Len(clippingPlanes[k]) = 1
            /\ AlongAxisAt(clippingPlanes[k][1], clipAxis, splitPosition)

\* the plane was moved to position 100 on the z axis
C28_Witness ==
    /\ lastOp.op = "splitPosition"
    /\ isSplitModeLocal
    /\ clipAxis = "z"
    /\ splitPosition = 100
    /\ \E k \in Traversed(material) :
          clippingPlanes[k] = <<[normal |-> Vec(0, 0, 1), constant |-> -10]>>

(***************************************************************************)
(* The centroid cache                                                      *)
(***************************************************************************)

\* the centre of the component's bounding box, in world coordinates, with
\* the mesh where the decoder put it
CentroidOf(c) == add(getCenter(boundingBox[c.mesh]), c.initialPosition)

\* C29: whenever components are present and the cache is not empty, the
\* cache holds one centroid per current component, computed from that
\* component
C29_CacheMatchesComponents ==
    Len(components) > 0 /\ Len(originalCentroids) > 0 =>
        /\ Len(originalCentroids) = Len(components)
        /\ \A i \in DOMAIN components :
              originalCentroids[i] = CentroidOf(components[i])

\* C30: a visibility toggle, a highlight change and a change of the explode
\* amount leave the cached centroids as they were
C30_ToolsKeepCentroids ==
    [][originalCentroids' = originalCentroids]_vars

\* a component was hidden while the model is exploded: a mesh is away from
\* where the decoder put it and the cache still holds the centroids taken
\* there
C30_Witness ==
    /\ lastOp.op = "panelToggle"
    /\ explodeAmount > 0
    /\ Len(originalCentroids) = Len(components)
    /\ \E i \in DOMAIN components :
          /\ position[components[i].mesh] # components[i].initialPosition
          /\ originalCentroids[i] = CentroidOf(components[i])

(***************************************************************************)
(* Explode: history and frame                                              *)
(***************************************************************************)

\* the positions the explode effect gives for amount a when it starts from
\* the model at rest
FromRest(a) ==
    ExplodeEffect(components, originalCentroids, a,
                  [m \in DOMAIN position |->
                      ComponentOf(components, m).initialPosition])

\* C31: the positions produced by applying an explode amount are those the
\* amount gives from the model at rest, whatever amounts were applied before
C31_ExplodeHistoryIndependent ==
    lastOp.op = "explode" => position = FromRest(explodeAmount)

\* C34: with the explode amount unchanged, a visibility toggle or a highlight
\* change leaves every component's position unchanged
C34_TogglesKeepPositions ==
    [][lastOp'.op \in {"panelToggle", "panelHighlight"}
          /\ explodeAmount' = explodeAmount
          => position' = position]_vars

(***************************************************************************)
(* Clipping: the plane after a change of axis or position                  *)
(***************************************************************************)

\* C32: right after the axis or the position was changed while clipping is
\* active every component carries the one plane of the new axis and
\* position, and in no state with clipping active does a component carry a
\* plane of another axis or position than the current ones
C32_NoPlaneOfOldAxisOrPosition ==
    isSplitModeLocal =>
        \A i \in DOMAIN components :
            /\ lastOp.op \in {"clipAxis", "splitPosition"} =>
                  Len(PlanesOf(components[i].mesh)) = 1
            /\ \A k \in DOMAIN PlanesOf(components[i].mesh) :
                  AlongAxisAt(PlanesOf(components[i].mesh)[k],
                              clipAxis, splitPosition)

(***************************************************************************)
(* The subsets a decode allocates                                          *)
(***************************************************************************)

\* C33: after a decode that resolved, there are as many allocated subsets
\* as emitted components and every allocated subset is the mesh of exactly
\* one component
C33_OneSubsetPerComponent ==
    lastOp.op = "resolved" =>
        /\ Cardinality(subsets) = Len(lastOp.components)
        /\ \A s \in subsets :
              Cardinality({i \in DOMAIN lastOp.components :
                              lastOp.components[i].mesh = s}) = 1

(***************************************************************************)
(* Clear while a load is pending                                           *)
(***************************************************************************)

\* C35: the result of a load that was pending when Clear was pressed is
\* never installed; in particular the task that follows the Clear does not
\* install it
C35_ClearIsFinal ==
    [][\A l \in 1..MaxLoads :
          lastOp.op = "clear" /\ l \in Pending
             => ~(/\ lastOp'.op = "resolved"
                  /\ lastOp'.loader = l
                  /\ components' # <<>>)]_vars

(***************************************************************************)
(* Measuring: what a click may touch                                       *)
(***************************************************************************)

\* C37: no step taken while the tool is inactive emits a result, and a
\* click while the tool is inactive, or a click that hits nothing while it
\* is active, leaves the captured points as they were
C37_InactiveOrEmptyClickKeepsPoints ==
    [][/\ ~isMeasuring => results' = results
       /\ \A intersects \in Intersects :
             (~isMeasuring \/ intersects = <<>>) /\ CanvasClick(intersects) =>
                 points' = points]_vars

\* a click hit nothing while the tool was active and held its first point
C37_Witness ==
    /\ lastOp.op = "sceneClick"
    /\ lastOp.id = Null
    /\ isMeasuring
    /\ Len(points) = 1

\* C38: a click made while measuring is active leaves the highlighted
\* component and the selected id as they were
C38_MeasuringClickKeepsSelection ==
    [][isMeasuring /\ lastOp'.op = "sceneClick" =>
          /\ selectedId' = selectedId
          /\ Highlighted(components') = Highlighted(components)]_vars

(***************************************************************************)
(* The properties shown                                                    *)
(***************************************************************************)

\* C36: once every lookup has settled, no properties are shown when nothing
\* is selected, and the properties shown are not those of another id than
\* the selected one
C36_PropertiesOfSelection ==
    lookups = {} =>
        /\ selectedId = Null => properties = Null
        /\ properties # Null => properties = selectedId

\* whether the panel lists a component under the filters now set
Listed(c) ==
    /\ \/ includes(toLowerCase(Chars(c.name)), toLowerCase(searchTerm))
       \/ includes(toLowerCase(Chars(c.type)), toLowerCase(searchTerm))
    /\ selectedType = Text("all") \/ c.type = selectedType
    /\ showOnlyVisible => c.visible

\* C39: Show All / Hide All gives every component listed under the current
\* filters the pressed visibility, leaves every other component as it was,
\* changes nothing but the visible flags, and pressing the same button
\* again changes nothing
C39_ToggleAllSetsListedOnly ==
    [][\A visible \in BOOLEAN :
          HandleToggleAll(visible) =>
             /\ DOMAIN components' = DOMAIN components
             /\ \A i \in DOMAIN components :
                   components'[i] =
                      IF Listed(components[i])
                      THEN [components[i] EXCEPT !.visible = visible]
                      ELSE components[i]
             /\ handleToggleAll(components',
                                filteredComponents(components', searchTerm,
                                                   selectedType,
                                                   showOnlyVisible),
                                visible) = components']_vars

\* Hide All under the type filter IFCSLAB has hidden the two slabs-by-type
\* and left the IFCWALL component shown
C39_Witness ==
    /\ lastOp = [op |-> "toggleAll", visible |-> FALSE]
    /\ selectedType = Text("IFCSLAB")
    /\ components[1].visible
    /\ ~components[2].visible
    /\ ~components[3].visible

====
